---- MODULE Spec2Model ----
(***************************************************************************)
(* A model of the two-stage strategy compiler of codegen-python:           *)
(*   json_to_ast.py  StrategyTransformer  (strategy JSON -> AST)           *)
(*   ast_to_code.py  JavaScriptGenerator  (AST -> JavaScript text)         *)
(* Python dicts are functions with a set of string keys as DOMAIN, lists   *)
(* are sequences, str values are strings handled character by character.   *)
(***************************************************************************)
EXTENDS Integers, Sequences, FiniteSets, TLC

VARIABLES strategy, pc, self, error, ast, gens, outs

vars == <<strategy, pc, self, error, ast, gens, outs>>

(***************************************************************************)
(* Python built-ins used by the two stages.                                *)
(***************************************************************************)

\* dict.get(key, default)
Get(d, key, default) == IF key \in DOMAIN d THEN d[key] ELSE default

\* a normal return and a raised exception of a step that can raise
Return(v) == [exc |-> "", value |-> v]

Raise(e) == [exc |-> e]

LowerCase == "abcdefghijklmnopqrstuvwxyz"

UpperCase == "ABCDEFGHIJKLMNOPQRSTUVWXYZ"

\* str.upper() on one character
UpperChar(c) ==
  IF \E i \in 1..Len(LowerCase) : SubSeq(LowerCase, i, i) = c
  THEN LET i == CHOOSE j \in 1..Len(LowerCase) : SubSeq(LowerCase, j, j) = c
       IN SubSeq(UpperCase, i, i)
  ELSE c

RECURSIVE upper(_)
\* str.upper()
upper(s) == IF s = "" THEN "" ELSE UpperChar(Head(s)) \o upper(Tail(s))

RECURSIVE replace(_, _, _)
\* str.replace(old, new), old not empty
replace(s, old, new) ==
  IF s = "" THEN ""
  ELSE IF Len(s) >= Len(old) /\ SubSeq(s, 1, Len(old)) = old
       THEN new \o replace(SubSeq(s, Len(old) + 1, Len(s)), old, new)
       ELSE Head(s) \o replace(Tail(s), old, new)

RECURSIVE join(_, _)
\* sep.join(parts)
join(sep, parts) ==
  IF parts = <<>> THEN ""
  ELSE IF Len(parts) = 1 THEN parts[1]
       ELSE parts[1] \o sep \o join(sep, Tail(parts))

RECURSIVE repeat(_, _)
\* s * n
repeat(s, n) == IF n <= 0 THEN "" ELSE s \o repeat(s, n - 1)

\* str(value) of an int
str(value) == ToString(value)

(***************************************************************************)
(* json_to_ast.py: node kinds and operator enumerations.                   *)
(***************************************************************************)

NodeType ==
  [TRADING_STRATEGY |-> "TradingStrategy", INDICATOR_DEF |-> "IndicatorDefinition",
   RULE |-> "Rule", LOGICAL_EXPR |-> "LogicalExpression", COMPARISON |-> "Comparison",
   CROSSING_EVENT |-> "CrossingEvent", PRICE_REF |-> "PriceReference",
   INDICATOR_REF |-> "IndicatorReference", LITERAL |-> "Literal",
   ORDER_ACTION |-> "OrderAction", POSITION |-> "Position"]

ComparisonOp ==
  [LESS_THAN |-> "LESS_THAN", GREATER_THAN |-> "GREATER_THAN",
   LESS_THAN_OR_EQUAL |-> "LESS_THAN_OR_EQUAL",
   GREATER_THAN_OR_EQUAL |-> "GREATER_THAN_OR_EQUAL",
   EQUALS |-> "EQUALS", NOT_EQUALS |-> "NOT_EQUALS"]

LogicalOp == [AND |-> "AND", OR |-> "OR"]

\* the op_map literal of the three operator-token sites
op_map ==
  ("<" :> ComparisonOp.LESS_THAN) @@ (">" :> ComparisonOp.GREATER_THAN) @@
  ("<=" :> ComparisonOp.LESS_THAN_OR_EQUAL) @@ (">=" :> ComparisonOp.GREATER_THAN_OR_EQUAL) @@
  ("==" :> ComparisonOp.EQUALS) @@ ("!=" :> ComparisonOp.NOT_EQUALS)

\* {"type": Literal, "value": v, "dataType": "number"}
Literal(v) == [type |-> NodeType.LITERAL, value |-> v, dataType |-> "number"]

\* {"type": PriceReference, "symbol": s}
PriceReference(s) == [type |-> NodeType.PRICE_REF, symbol |-> s]

\* {"type": IndicatorReference, "name": n}
IndicatorReference(n) == [type |-> NodeType.INDICATOR_REF, name |-> n]

\* {"type": Comparison, "left": l, "operator": op, "right": r}
Comparison(l, op, r) == [type |-> NodeType.COMPARISON, left |-> l, operator |-> op, right |-> r]

\* "Default to always true" of _transform_trigger_conditions
AlwaysTrue == Comparison(Literal(1), ComparisonOp.EQUALS, Literal(1))

\* "Default/unknown condition" of _transform_condition
UnknownCondition == Comparison(Literal(1), ComparisonOp.EQUALS, Literal(1))

(***************************************************************************)
(* StrategyTransformer                                                     *)
(***************************************************************************)

\* self.strategy.get('indicators', []) and its sibling
ListOf(strat, key) == Get(strat, key, <<>>)

\* {x['id']: x for x in items}: a later entry replaces an earlier one
DictById(items) ==
  [id \in {items[i].id : i \in DOMAIN items} |->
     items[CHOOSE i \in DOMAIN items :
             /\ items[i].id = id
             /\ \A j \in DOMAIN items : items[j].id = id => j <= i]]

_build_indicators_map(strat) ==
  IF \E i \in DOMAIN ListOf(strat, "indicators") : "id" \notin DOMAIN ListOf(strat, "indicators")[i]
  THEN Raise("KeyError")
  ELSE Return(DictById(ListOf(strat, "indicators")))

_build_actions_map(strat) ==
  IF \E i \in DOMAIN ListOf(strat, "actions") : "id" \notin DOMAIN ListOf(strat, "actions")[i]
  THEN Raise("KeyError")
  ELSE Return(DictById(ListOf(strat, "actions")))

\* strategy_json['symbols'][0] if strategy_json.get('symbols') else 'UNKNOWN'
ResolveSymbol(strat) ==
  IF "symbols" \in DOMAIN strat /\ strat.symbols # <<>> THEN strat.symbols[1] ELSE "UNKNOWN"

\* StrategyTransformer.__init__
StrategyTransformer__init__(strat) ==
  LET im == _build_indicators_map(strat)
      am == _build_actions_map(strat)
  IN IF im.exc # "" THEN Raise(im.exc)
     ELSE IF am.exc # "" THEN Raise(am.exc)
     ELSE Return([strategy |-> strat, symbol |-> ResolveSymbol(strat),
                  indicators_map |-> im.value, actions_map |-> am.value])

_transform_indicators(slf) ==
  LET inds == ListOf(slf.strategy, "indicators")
  IN IF \E i \in DOMAIN inds : "id" \notin DOMAIN inds[i] \/ "type" \notin DOMAIN inds[i]
     THEN Raise("KeyError")
     ELSE Return([i \in DOMAIN inds |->
                    [type |-> NodeType.INDICATOR_DEF, name |-> inds[i].id,
                     indicator_type |-> upper(inds[i].type),
                     params |-> Get(inds[i], "params", <<>>)]])

_transform_price_condition(slf, params) ==
  LET event_type == Get(params, "event_type", "")
      threshold == Get(params, "threshold", 0)
      direction == Get(params, "direction", "")
      op == IF event_type = "cross"
            THEN IF direction = "below" THEN ComparisonOp.LESS_THAN
                 ELSE IF direction = "above" THEN ComparisonOp.GREATER_THAN
                 ELSE ComparisonOp.EQUALS
            ELSE IF event_type = "above" THEN ComparisonOp.GREATER_THAN
            ELSE IF event_type = "below" THEN ComparisonOp.LESS_THAN
            ELSE ComparisonOp.EQUALS
  IN Comparison(PriceReference(slf.symbol), op, Literal(threshold))

_transform_price_comparison(slf, params) ==
  LET operator == Get(params, "operator", ">")
      value == Get(params, "value", 0)
  IN Comparison(PriceReference(slf.symbol),
                Get(op_map, operator, ComparisonOp.GREATER_THAN),
                Literal(value))

_transform_indicator_comparison(slf, params) ==
  LET indicator1 == Get(params, "indicator1", "")
      indicator2 == Get(params, "indicator2", "")
      operator == Get(params, "operator", ">")
      left == IndicatorReference(indicator1)
      right == IF indicator2 # "" THEN IndicatorReference(indicator2)
               ELSE IF "value" \in DOMAIN params THEN Literal(params.value)
               ELSE Literal(0)
  IN Comparison(left, Get(op_map, operator, ComparisonOp.GREATER_THAN), right)

\* faulty variant of _transform_indicator_event: an explicit operator is looked
\* up before event_type and direction are tested for "above"/"below"
_transform_indicator_event_operator_first(slf, params) ==
  LET indicator == Get(params, "indicator", "")
      event_type == Get(params, "event_type", "")
      threshold == Get(params, "threshold", 0)
      direction == Get(params, "direction", "")
      has_operator == "operator" \in DOMAIN params /\ params.operator # ""
      op == IF event_type = "cross"
            THEN IF direction = "above" THEN ComparisonOp.GREATER_THAN
                 ELSE IF direction = "below" THEN ComparisonOp.LESS_THAN
                 ELSE ComparisonOp.EQUALS
            ELSE IF has_operator THEN Get(op_map, params.operator, ComparisonOp.GREATER_THAN)
            ELSE IF event_type = "above" \/ direction = "above" THEN ComparisonOp.GREATER_THAN
            ELSE IF event_type = "below" \/ direction = "below" THEN ComparisonOp.LESS_THAN
            ELSE ComparisonOp.GREATER_THAN
  IN Comparison(IndicatorReference(indicator), op, Literal(threshold))

_transform_indicator_event(slf, params) ==
  LET indicator == Get(params, "indicator", "")
      event_type == Get(params, "event_type", "")
      threshold == Get(params, "threshold", 0)
      direction == Get(params, "direction", "")
      has_operator == "operator" \in DOMAIN params /\ params.operator # ""
      op == IF event_type = "cross"
            THEN IF direction = "above" THEN ComparisonOp.GREATER_THAN
                 ELSE IF direction = "below" THEN ComparisonOp.LESS_THAN
                 ELSE ComparisonOp.EQUALS
            ELSE IF event_type = "above" \/ direction = "above" THEN ComparisonOp.GREATER_THAN
            ELSE IF event_type = "below" \/ direction = "below" THEN ComparisonOp.LESS_THAN
            ELSE IF has_operator THEN Get(op_map, params.operator, ComparisonOp.GREATER_THAN)
            ELSE ComparisonOp.GREATER_THAN
  IN Comparison(IndicatorReference(indicator), op, Literal(threshold))

RECURSIVE _transform_trigger_conditions(_, _)
RECURSIVE _transform_condition(_, _)

\* the keys a trigger holds that are not conditions
ReservedKeys == {"actions", "id", "name"}

\* [self._transform_condition(cond) for cond in members]
LowerAll(slf, members) == [i \in DOMAIN members |-> _transform_condition(slf, members[i])]

\* {"type": LogicalExpression, "operator": op, "operands": operands}
LogicalExpression(op, operands) ==
  [type |-> NodeType.LOGICAL_EXPR, operator |-> op, operands |-> operands]

\* faulty variant of _transform_trigger_conditions: a one-member list is wrapped
\* like any other
_transform_trigger_conditions_always_wraps(slf, trigger) ==
  IF "and" \in DOMAIN trigger
  THEN LogicalExpression(LogicalOp.AND, LowerAll(slf, trigger["and"]))
  ELSE IF "or" \in DOMAIN trigger
  THEN LogicalExpression(LogicalOp.OR, LowerAll(slf, trigger["or"]))
  ELSE IF \E key \in DOMAIN trigger : key \notin ReservedKeys
  THEN _transform_condition(slf, trigger)
  ELSE AlwaysTrue

_transform_trigger_conditions(slf, trigger) ==
  IF "and" \in DOMAIN trigger
  THEN LET operands == LowerAll(slf, trigger["and"])
       IN IF Len(operands) = 1 THEN operands[1]
          ELSE LogicalExpression(LogicalOp.AND, operands)
  ELSE IF "or" \in DOMAIN trigger
  THEN LET operands == LowerAll(slf, trigger["or"])
       IN IF Len(operands) = 1 THEN operands[1]
          ELSE LogicalExpression(LogicalOp.OR, operands)
  ELSE IF \E key \in DOMAIN trigger : key \notin ReservedKeys
  THEN _transform_condition(slf, trigger)
  ELSE AlwaysTrue

\* faulty variant of _transform_condition: the last type test is an else, so a
\* condition of unknown type is lowered as a price comparison
_transform_condition_price_default(slf, condition) ==
  LET cond_type == Get(condition, "type", "")
      params == Get(condition, "params", <<>>)
  IN IF cond_type = "price_move" THEN _transform_price_condition(slf, params)
     ELSE IF cond_type = "indicator_comparison" THEN _transform_indicator_comparison(slf, params)
     ELSE IF cond_type = "indicator_event" THEN _transform_indicator_event(slf, params)
     ELSE IF "and" \in DOMAIN condition THEN _transform_trigger_conditions(slf, condition)
     ELSE IF "or" \in DOMAIN condition THEN _transform_trigger_conditions(slf, condition)
     ELSE _transform_price_comparison(slf, params)

_transform_condition(slf, condition) ==
  LET cond_type == Get(condition, "type", "")
      params == Get(condition, "params", <<>>)
  IN IF cond_type = "price_move" THEN _transform_price_condition(slf, params)
     ELSE IF cond_type = "indicator_comparison" THEN _transform_indicator_comparison(slf, params)
     ELSE IF cond_type = "indicator_event" THEN _transform_indicator_event(slf, params)
     ELSE IF cond_type = "price_comparison" THEN _transform_price_comparison(slf, params)
     ELSE IF "and" \in DOMAIN condition THEN _transform_trigger_conditions(slf, condition)
     ELSE IF "or" \in DOMAIN condition THEN _transform_trigger_conditions(slf, condition)
     ELSE UnknownCondition

\* faulty variant of _transform_action: the size field is chosen by if/else, so
\* every action that is not an entry gets percent
_transform_action_else_percent(slf, action) ==
  LET action_type == Get(action, "type", "")
      direction == Get(action, "direction", "")
      order == Get(action, "order", <<>>)
      act_type == IF action_type = "entry" THEN "OPEN_POSITION"
                  ELSE IF action_type = "exit" THEN "CLOSE_POSITION"
                  ELSE upper(action_type)
      position == [type |-> NodeType.POSITION,
                   direction |-> IF direction # "" THEN upper(direction) ELSE "LONG",
                   symbol |-> Get(order, "symbol", slf.symbol),
                   order_type |-> upper(Get(order, "type", "market"))]
      sized == IF action_type = "entry"
               THEN position @@ [max_size |-> Get(action, "max_position_size", 1)]
               ELSE position @@ [percent |-> Get(action, "percent_of_position", 100)]
  IN [type |-> NodeType.ORDER_ACTION, action_type |-> act_type, position |-> sized]

_transform_action(slf, action) ==
  LET action_type == Get(action, "type", "")
      direction == Get(action, "direction", "")
      order == Get(action, "order", <<>>)
      act_type == IF action_type = "entry" THEN "OPEN_POSITION"
                  ELSE IF action_type = "exit" THEN "CLOSE_POSITION"
                  ELSE upper(action_type)
      position == [type |-> NodeType.POSITION,
                   direction |-> IF direction # "" THEN upper(direction) ELSE "LONG",
                   symbol |-> Get(order, "symbol", slf.symbol),
                   order_type |-> upper(Get(order, "type", "market"))]
      sized == IF action_type = "entry"
               THEN position @@ [max_size |-> Get(action, "max_position_size", 1)]
               ELSE IF action_type = "exit"
               THEN position @@ [percent |-> Get(action, "percent_of_position", 100)]
               ELSE position
  IN [type |-> NodeType.ORDER_ACTION, action_type |-> act_type, position |-> sized]

\* rule_name = f"{action_id}_rule" if action_id else f"rule_{i}"
RuleName(action_id, i) == IF action_id # "" THEN action_id \o "_rule" ELSE "rule_" \o str(i)

RECURSIVE RulesOfTrigger(_, _, _, _)
\* faulty variant of RulesOfTrigger: the loop ends at the first id that does not
\* resolve
RulesOfTrigger_stops_at_unresolved(slf, i, trigger, k) ==
  LET ids == Get(trigger, "actions", <<>>)
      condition == _transform_trigger_conditions(slf, trigger)
  IN IF k > Len(ids) THEN <<>>
     ELSE LET action_id == ids[k]
              found == action_id \in DOMAIN slf.actions_map
                         /\ DOMAIN slf.actions_map[action_id] # {}
          IN IF found
             THEN <<[type |-> NodeType.RULE, name |-> RuleName(action_id, i),
                     condition |-> condition,
                     action |-> _transform_action(slf, slf.actions_map[action_id])]>>
                    \o RulesOfTrigger(slf, i, trigger, k + 1)
             ELSE <<>>

\* the inner loop of _transform_triggers: one trigger's rules, action ids k..end;
\* i is the 0-based index enumerate() gives the trigger
RulesOfTrigger(slf, i, trigger, k) ==
  LET ids == Get(trigger, "actions", <<>>)
      condition == _transform_trigger_conditions(slf, trigger)
  IN IF k > Len(ids) THEN <<>>
     ELSE LET action_id == ids[k]
              found == action_id \in DOMAIN slf.actions_map
                         /\ DOMAIN slf.actions_map[action_id] # {}
          IN (IF found
              THEN <<[type |-> NodeType.RULE, name |-> RuleName(action_id, i),
                      condition |-> condition,
                      action |-> _transform_action(slf, slf.actions_map[action_id])]>>
              ELSE <<>>) \o RulesOfTrigger(slf, i, trigger, k + 1)

RECURSIVE RulesFrom(_, _)
\* the outer loop of _transform_triggers, triggers n..end (1-based n)
RulesFrom(slf, n) ==
  LET triggers == ListOf(slf.strategy, "triggers")
  IN IF n > Len(triggers) THEN <<>>
     ELSE RulesOfTrigger(slf, n - 1, triggers[n], 1) \o RulesFrom(slf, n + 1)

_transform_triggers(slf) == RulesFrom(slf, 1)

\* StrategyTransformer.transform
transform(slf) ==
  LET inds == _transform_indicators(slf)
  IN IF inds.exc # "" THEN Raise(inds.exc)
     ELSE Return([type |-> NodeType.TRADING_STRATEGY, symbol |-> slf.symbol,
                  indicators |-> inds.value, rules |-> _transform_triggers(slf)])

(***************************************************************************)
(* JavaScriptGenerator                                                     *)
(***************************************************************************)

\* JavaScriptGenerator.__init__
JavaScriptGenerator__init__(tree) == [ast |-> tree, indent_level |-> 0, indent_str |-> "  "]

indent(gen) == repeat(gen.indent_str, gen.indent_level)

\* faulty variant of js_operators: EQUALS and NOT_EQUALS as the loose == and !=
js_operators_loose ==
  [LESS_THAN |-> "<", GREATER_THAN |-> ">", LESS_THAN_OR_EQUAL |-> "<=",
   GREATER_THAN_OR_EQUAL |-> ">=", EQUALS |-> "==", NOT_EQUALS |-> "!="]

\* the dict literal of generate_comparison_operator
js_operators ==
  [LESS_THAN |-> "<", GREATER_THAN |-> ">", LESS_THAN_OR_EQUAL |-> "<=",
   GREATER_THAN_OR_EQUAL |-> ">=", EQUALS |-> "===", NOT_EQUALS |-> "!=="]

\* a subscript of the dict literal: KeyError for any other op
generate_comparison_operator(op) ==
  IF op \in DOMAIN js_operators THEN Return(js_operators[op]) ELSE Raise("KeyError")

\* faulty variant of get_value_js: an indicator id keeps its underscores
get_value_js_keeps_underscores(val) ==
  IF val.type = "Literal" THEN str(val.value)
  ELSE IF val.type = "PriceReference" THEN "price"
  ELSE IF val.type = "IndicatorReference" THEN val.name
  ELSE "null"

get_value_js(val) ==
  IF val.type = "Literal" THEN str(val.value)
  ELSE IF val.type = "PriceReference" THEN "price"
  ELSE IF val.type = "IndicatorReference" THEN replace(val.name, "_", "")
  ELSE "null"

RECURSIVE generate_condition_js(_)
\* the rendered text, or the exception a Comparison's operator lookup raises
generate_condition_js(condition) ==
  IF condition.type = "LogicalExpression"
  THEN LET op == IF condition.operator = "AND" THEN " && " ELSE " || "
           inner == [i \in DOMAIN condition.operands |->
                       generate_condition_js(condition.operands[i])]
       IN IF \E i \in DOMAIN inner : inner[i].exc # ""
          THEN Raise("KeyError")
          ELSE Return(join(op, [i \in DOMAIN inner |-> "(" \o inner[i].value \o ")"]))
  ELSE IF condition.type = "Comparison"
  THEN LET left == get_value_js(condition.left)
           right == get_value_js(condition.right)
           op == generate_comparison_operator(condition.operator)
       IN IF op.exc # "" THEN Raise(op.exc)
          ELSE Return(left \o " " \o op.value \o " " \o right)
  ELSE Return("true")

\* self.indent_level += d
Indented(gen, d) == [gen EXCEPT !.indent_level = @ + d]

\* faulty variant of EmitMethod: indent_level is not decremented after the return line
EmitMethod_no_dedent(st, header, rule, blank) ==
  LET g1 == Indented(st.gen, 1)
      conditions == generate_condition_js(rule.condition)
  IN IF conditions.exc # ""
     THEN [gen |-> g1, code |-> Append(st.code, indent(st.gen) \o header), exc |-> conditions.exc]
     ELSE [gen |-> g1,
           code |-> st.code \o <<indent(st.gen) \o header,
                                 indent(g1) \o "return " \o conditions.value \o ";",
                                 indent(g1) \o "}">>
                            \o (IF blank THEN <<"">> ELSE <<>>),
           exc |-> ""]

\* one branch of generate's loop body: the method a recognised rule emits.
\* st is [gen, code, exc]; blank tells whether "" follows the closing brace
EmitMethod(st, header, rule, blank) ==
  LET g1 == Indented(st.gen, 1)
      conditions == generate_condition_js(rule.condition)
      g2 == Indented(g1, -1)
  IN IF conditions.exc # ""
     THEN [gen |-> g1, code |-> Append(st.code, indent(st.gen) \o header), exc |-> conditions.exc]
     ELSE [gen |-> g2,
           code |-> st.code \o <<indent(st.gen) \o header,
                                 indent(g1) \o "return " \o conditions.value \o ";",
                                 indent(g2) \o "}">>
                            \o (IF blank THEN <<"">> ELSE <<>>),
           exc |-> ""]

\* faulty variant of EmitRule: the second branch is an else, so every rule that
\* is not entry_long_rule emits checkExit
EmitRule_exit_for_others(st, rule) ==
  IF rule.name = "entry_long_rule"
  THEN EmitMethod(st, "checkEntry(price, rsi14, ema50, ema200) {", rule, TRUE)
  ELSE EmitMethod(st, "checkExit(ema50, ema200) {", rule, FALSE)

\* the body of generate's loop for one rule
EmitRule(st, rule) ==
  IF rule.name = "entry_long_rule"
  THEN EmitMethod(st, "checkEntry(price, rsi14, ema50, ema200) {", rule, TRUE)
  ELSE IF rule.name = "exit_long_rule"
  THEN EmitMethod(st, "checkExit(ema50, ema200) {", rule, FALSE)
  ELSE st

RECURSIVE EmitRules(_, _, _)
\* for rule in self.ast['rules'], from rule n on; stops where a rule raises
EmitRules(st, rules, n) ==
  IF n > Len(rules) \/ st.exc # "" THEN st
  ELSE EmitRules(EmitRule(st, rules[n]), rules, n + 1)

\* JavaScriptGenerator.generate: the generator afterwards, the lines, the text
generate(gen) ==
  LET code0 == <<"// Generated JavaScript Trading Strategy",
                 "class " \o gen.ast.symbol \o "Strategy {">>
      st0 == [gen |-> Indented(gen, 1), code |-> code0, exc |-> ""]
      st1 == EmitRules(st0, gen.ast.rules, 1)
      g2 == Indented(st1.gen, -1)
      code2 == Append(st1.code, "}")
  IN IF st1.exc # ""
     THEN [gen |-> st1.gen, exc |-> st1.exc]
     ELSE [gen |-> g2, exc |-> "", code |-> code2, text |-> join("\n", code2)]

(***************************************************************************)
(* The strategy configurations the model runs the two stages on.           *)
(***************************************************************************)

\* members of an and/or list
MaxLen == 2

\* nesting depth of and/or groups
MaxDepth == 2

\* triggers of a strategy in the fan-out family
MaxTriggers == 2

\* action ids one trigger names in the fan-out family
MaxRefs == 2

\* JavaScriptGenerator instances built on one AST
MaxGens == 2

\* generate() calls on one AST
MaxRuns == 2

SeqsUpTo(S, n) == UNION {[1..k -> S] : k \in 0..n}

\* a key that is absent or holds one of the values
OptKey(key, values) == {<<>>} \cup {key :> v : v \in values}

EventTypes == {"cross", "above", "below", "touch"}

Directions == {"above", "below", "sideways"}

OperatorTokens == {"<", ">", "<=", ">=", "==", "!="}

\* the tokens of op_map, one no table holds, and the empty string
AnyTokens == OperatorTokens \cup {"~", ""}

\* main.py's original_strategy
SampleIndicators ==
  <<[id |-> "ema_50", type |-> "ema", symbol |-> "TSLA", params |-> [period |-> 50]],
    [id |-> "ema_200", type |-> "ema", symbol |-> "TSLA", params |-> [period |-> 200]],
    [id |-> "rsi_14", type |-> "rsi", symbol |-> "TSLA", params |-> [period |-> 14]]>>

SampleEntryTrigger ==
  [and |-> <<[type |-> "price_move",
              params |-> [event_type |-> "cross", threshold |-> 430, direction |-> "below"]],
             [type |-> "indicator_comparison",
              params |-> [indicator1 |-> "ema_50", indicator2 |-> "ema_200", operator |-> ">"]],
             [type |-> "indicator_event",
              params |-> [indicator |-> "rsi_14", event_type |-> "cross",
                          threshold |-> 60, direction |-> "above"]]>>,
   actions |-> <<"entry_long">>]

SampleExitTrigger ==
  [and |-> <<[type |-> "indicator_comparison",
              params |-> [indicator1 |-> "ema_50", indicator2 |-> "ema_200", operator |-> "<"]]>>,
   actions |-> <<"exit_long">>]

SampleOrder == [symbol |-> "TSLA", type |-> "market", tif |-> "day"]

SampleEntryAction ==
  [id |-> "entry_long", type |-> "entry", direction |-> "long",
   max_position_size |-> 10, order |-> SampleOrder]

SampleExitAction ==
  [id |-> "exit_long", type |-> "exit", direction |-> "long",
   percent_of_position |-> 100, order |-> SampleOrder]

SampleActions == <<SampleEntryAction, SampleExitAction>>

SampleStrategy ==
  [symbols |-> <<"TSLA">>, indicators |-> SampleIndicators,
   triggers |-> <<SampleEntryTrigger, SampleExitTrigger>>, actions |-> SampleActions]

\* single conditions of every type, with every key present or absent
PriceMoveConditions ==
  {[type |-> "price_move", params |-> e @@ d @@ t] :
     e \in OptKey("event_type", EventTypes), d \in OptKey("direction", Directions),
     t \in OptKey("threshold", {430})}

PriceComparisonConditions ==
  {[type |-> "price_comparison", params |-> o @@ v] :
     o \in OptKey("operator", AnyTokens), v \in OptKey("value", {100})}

IndicatorComparisonConditions ==
  {[type |-> "indicator_comparison", params |-> i @@ o @@ j @@ v] :
     i \in {"indicator1" :> "ema_50"}, o \in OptKey("operator", AnyTokens),
     j \in OptKey("indicator2", {"ema_200", ""}), v \in OptKey("value", {70})}

IndicatorEventConditions ==
  {[type |-> "indicator_event", params |-> i @@ e @@ d @@ o @@ t] :
     i \in {"indicator" :> "rsi_14"}, e \in OptKey("event_type", EventTypes),
     d \in OptKey("direction", Directions), o \in OptKey("operator", AnyTokens),
     t \in OptKey("threshold", {60})}

\* conditions no branch of _transform_condition recognises, and ones without params
OddConditions ==
  {[type |-> "unknown_type"],
   [type |-> "unknown_type", params |-> [threshold |-> 5]],
   [params |-> [operator |-> "<", value |-> 100]],
   [type |-> "price_move"], [type |-> "price_comparison"],
   [type |-> "indicator_comparison"], [type |-> "indicator_event"],
   [type |-> "indicator_comparison", params |-> [operator |-> "<="]]}

LeafConditions ==
  PriceMoveConditions \cup PriceComparisonConditions \cup IndicatorComparisonConditions
    \cup IndicatorEventConditions \cup OddConditions

\* the members and/or lists are filled with
GroupLeaves ==
  {[type |-> "price_move", params |-> [event_type |-> "cross", threshold |-> 430, direction |-> "below"]],
   [type |-> "unknown_type"]}

RECURSIVE Groups(_)
\* and/or groups nested to depth d: lists of leaves, and lists led by a nested group
Groups(d) ==
  IF d = 0 THEN {}
  ELSE LET flat == SeqsUpTo(GroupLeaves, MaxLen)
           nested == {<<g>> \o tail : g \in Groups(d - 1), tail \in SeqsUpTo(GroupLeaves, MaxLen - 1)}
       IN {key :> members : key \in {"and", "or"}, members \in flat \cup nested}

\* dicts that hold more than one of type / and / or, and triggers with reserved keys only
MixedConditions ==
  {[type |-> "price_move", params |-> [event_type |-> "above", threshold |-> 430],
    and |-> <<[type |-> "unknown_type"]>>],
   [and |-> <<[type |-> "unknown_type"]>>,
    or |-> <<[type |-> "price_comparison"], [type |-> "unknown_type"]>>],
   [or |-> <<[type |-> "price_move", and |-> <<[type |-> "unknown_type"]>>]>>],
   [type |-> "unknown_type", or |-> <<[type |-> "price_comparison"]>>],
   [id |-> "t1", name |-> "reserved keys only"],
   <<>>}

TriggerBodies == LeafConditions \cup Groups(MaxDepth) \cup MixedConditions

\* one trigger of every shape, over the sample's symbols, indicators and actions
ConditionStrategies ==
  {[symbols |-> <<"TSLA">>, indicators |-> SampleIndicators, actions |-> SampleActions,
    triggers |-> <<body @@ [actions |-> <<"entry_long", "exit_long">>]>>] :
     body \in TriggerBodies}

SymbolsChoices == OptKey("symbols", {<<>>, <<"TSLA">>, <<"AAPL", "TSLA">>})

IndicatorsChoices ==
  OptKey("indicators",
         {<<>>, SampleIndicators,
          <<[id |-> "ema_50", type |-> "ema"]>>,
          <<[type |-> "ema", params |-> [period |-> 50]]>>,
          <<[id |-> "ema_50", params |-> [period |-> 50]]>>,
          <<[id |-> "ema_50", type |-> "ema"], [id |-> "ema_50", type |-> "sma"]>>})

\* action definitions of every type, with and without their optional keys
HedgeAction == [id |-> "hedge_1", type |-> "hedge", direction |-> "short"]

ActionsChoices ==
  OptKey("actions",
         {<<>>, SampleActions,
          <<[type |-> "entry", direction |-> "long"]>>,
          <<[id |-> "entry_long"], [id |-> "exit_long", type |-> "exit"]>>,
          <<[id |-> "entry_long", type |-> "entry"], HedgeAction, SampleExitAction>>,
          <<[id |-> "", type |-> "entry", order |-> [type |-> "limit"]], SampleExitAction>>,
          <<SampleEntryAction, [id |-> "entry_long", type |-> "exit"]>>,
          <<[id |-> "entry_long", type |-> "open_position", max_position_size |-> 5],
            [id |-> "exit_long", type |-> "close_position"]>>})

TriggersChoices ==
  OptKey("triggers",
         {<<SampleEntryTrigger, SampleExitTrigger>>,
          <<[and |-> <<>>, actions |-> <<"entry_long", "hedge_1", "">>],
            [type |-> "price_comparison", params |-> [operator |-> "<", value |-> 100]],
            [type |-> "unknown_type", actions |-> <<"entry_long">>],
            [id |-> "t4", actions |-> <<"exit_long", "ghost">>]>>})

\* configurations with every top-level key missing, empty or malformed
DefaultsStrategies ==
  {s @@ i @@ a @@ t : s \in SymbolsChoices, i \in IndicatorsChoices,
                       a \in ActionsChoices, t \in TriggersChoices}

\* the two action ids the triggers of one fan-out strategy name; ghost is the id
\* of no action
FanOutIds == {<<"entry_long", "ghost">>, <<"", "exit_long">>}

FanOutActions ==
  <<SampleEntryAction, SampleExitAction, HedgeAction, [id |-> "", type |-> "exit"]>>

\* the condition of the n-th trigger of a fan-out strategy
FanOutBody(n) ==
  IF n % 3 = 1 THEN [and |-> SampleEntryTrigger["and"]]
  ELSE IF n % 3 = 2 THEN [or |-> SampleExitTrigger["and"]]
  ELSE [name |-> "no condition"]

\* up to MaxTriggers triggers, each naming up to MaxRefs action ids
FanOutStrategies ==
  {[symbols |-> <<"TSLA">>, indicators |-> SampleIndicators, actions |-> FanOutActions,
    triggers |-> [n \in DOMAIN refs |-> FanOutBody(n) @@ [actions |-> refs[n]]]] :
     refs \in UNION {SeqsUpTo(SeqsUpTo({ids[1], ids[2]}, MaxRefs), MaxTriggers) : ids \in FanOutIds}}

Strategies ==
  {SampleStrategy} \cup ConditionStrategies \cup DefaultsStrategies \cup FanOutStrategies

\* the configurations the generator is run repeatedly on
EmitStrategies ==
  {SampleStrategy} \cup DefaultsStrategies
    \cup {[symbols |-> <<"TSLA">>, indicators |-> SampleIndicators, actions |-> SampleActions,
           triggers |-> <<body @@ [actions |-> <<"entry_long", "exit_long">>]>>] :
            body \in OddConditions \cup MixedConditions \cup Groups(1)}

(***************************************************************************)
(* The pipeline of main.py: json_to_ast() constructs the transformer and   *)
(* transforms; ast_to_code() builds a generator on the AST and runs it.    *)
(* outs[g] holds the texts generator g has returned, in order.             *)
(***************************************************************************)

Start(configs) ==
  /\ strategy \in configs
  /\ pc = "start"
  /\ self = <<>>
  /\ error = ""
  /\ ast = <<>>
  /\ gens = <<>>
  /\ outs = <<>>

Init == Start(Strategies)

\* transformer = StrategyTransformer(original_json)
Construct ==
  /\ pc = "start"
  /\ LET r == StrategyTransformer__init__(strategy)
     IN IF r.exc # ""
        THEN /\ pc' = "failed"
             /\ error' = r.exc
             /\ self' = self
        ELSE /\ pc' = "constructed"
             /\ self' = r.value
             /\ error' = error
  /\ UNCHANGED <<strategy, ast, gens, outs>>

\* return transformer.transform()
Transform ==
  /\ pc = "constructed"
  /\ LET r == transform(self)
     IN IF r.exc # ""
        THEN /\ pc' = "failed"
             /\ error' = r.exc
             /\ ast' = ast
        ELSE /\ pc' = "transformed"
             /\ ast' = r.value
             /\ error' = error
  /\ UNCHANGED <<strategy, self, gens, outs>>

\* codegen = JavaScriptGenerator(ast)
NewGenerator ==
  /\ pc = "transformed"
  /\ Len(gens) < MaxGens
  /\ gens' = Append(gens, JavaScriptGenerator__init__(ast))
  /\ outs' = Append(outs, <<>>)
  /\ UNCHANGED <<strategy, pc, self, error, ast>>

\* codegen.generate() on generator g
Generate(g) ==
  /\ pc = "transformed"
  /\ Len(outs[g]) < MaxRuns
  /\ LET r == generate(gens[g])
     IN /\ gens' = [gens EXCEPT ![g] = r.gen]
        /\ IF r.exc # ""
           THEN /\ error' = r.exc
                /\ pc' = "emit_failed"
                /\ outs' = outs
           ELSE /\ outs' = [outs EXCEPT ![g] = Append(@, r.text)]
                /\ UNCHANGED <<pc, error>>
  /\ UNCHANGED <<strategy, self, ast>>

\* main.ast_to_code: codegen = JavaScriptGenerator(ast); print(codegen.generate())
AstToCode ==
  /\ pc = "transformed"
  /\ gens = <<>>
  /\ LET r == generate(JavaScriptGenerator__init__(ast))
     IN /\ gens' = <<r.gen>>
        /\ IF r.exc # ""
           THEN /\ error' = r.exc
                /\ pc' = "emit_failed"
                /\ outs' = <<<<>>>>
           ELSE /\ outs' = <<<<r.text>>>>
                /\ UNCHANGED <<pc, error>>
  /\ UNCHANGED <<strategy, self, ast>>

Next ==
  \/ Construct
  \/ Transform
  \/ AstToCode

Spec == Init /\ [][Next]_vars

\* the same pipeline with several generators on one AST, each run several times
GenInit == Start(EmitStrategies)

GenNext ==
  \/ Construct
  \/ Transform
  \/ NewGenerator
  \/ \E g \in DOMAIN gens : Generate(g)

GenSpec == GenInit /\ [][GenNext]_vars

(***************************************************************************)
(* Properties.  What they share: the triggers of the configuration, the    *)
(* trigger and action id each rule of the AST stems from, the lines of an  *)
(* emitted text.                                                           *)
(***************************************************************************)

Triggers == ListOf(strategy, "triggers")

Actions == ListOf(strategy, "actions")

\* an action id resolves when some action definition carries it
Resolves(id) == \E i \in DOMAIN Actions : Actions[i].id = id

\* the definition an id resolves to: the last one carrying it
ActionOf(id) ==
  Actions[CHOOSE i \in DOMAIN Actions :
            Actions[i].id = id /\ \A j \in DOMAIN Actions : j > i => Actions[j].id # id]

RECURSIVE OriginsFrom(_)
\* the pairs <<trigger index, action id>> in trigger order, then `actions` order,
\* resolving ids only
OriginsFrom(n) ==
  IF n > Len(Triggers) THEN <<>>
  ELSE LET ids == SelectSeq(Get(Triggers[n], "actions", <<>>), Resolves)
       IN [k \in 1..Len(ids) |-> <<n, ids[k]>>] \o OriginsFrom(n + 1)

Origins == OriginsFrom(1)

\* the list condition-tree lowering reads: `and`, or `or` when `and` is absent
UsedKey(c) == IF "and" \in DOMAIN c THEN "and" ELSE IF "or" \in DOMAIN c THEN "or" ELSE ""

KnownTypes == {"price_move", "price_comparison", "indicator_comparison", "indicator_event"}

Sentinel ==
  [type |-> "Comparison",
   left |-> [type |-> "Literal", value |-> 1, dataType |-> "number"],
   operator |-> "EQUALS",
   right |-> [type |-> "Literal", value |-> 1, dataType |-> "number"]]

\* the positions of the line breaks of a text
LineBreaks(text) == {i \in 1..Len(text) : SubSeq(text, i, i) = "\n"}

\* the lines of a text: what lies between its line breaks
SplitLines(text) ==
  LET breaks == LineBreaks(text)
      n == Cardinality(breaks)
      Break(k) == IF k = 0 THEN 0
                  ELSE IF k = n + 1 THEN Len(text) + 1
                  ELSE CHOOSE i \in breaks : Cardinality({j \in breaks : j < i}) = k - 1
  IN [k \in 1..(n + 1) |-> SubSeq(text, Break(k - 1) + 1, Break(k) - 1)]

\* C1: normalize never fails: for every configuration, also a malformed one,
\* construction and transform raise no error
C1_NormalizeNeverFails == pc # "failed"

\* C2: on the sample configuration normalize yields entry_long_rule with the
\* 3-operand AND of (price < 430), (ema_50 > ema_200), (rsi_14 > 60), then
\* exit_long_rule with the unwrapped comparison ema_50 < ema_200, and emit yields
\* checkEntry and checkExit returning the two rendered expressions
C2_SampleEndToEnd ==
  strategy = SampleStrategy =>
    /\ pc \in {"start", "constructed", "transformed"}
    /\ pc = "transformed" =>
         /\ Len(ast.rules) = 2
         /\ ast.rules[1].name = "entry_long_rule"
         /\ ast.rules[1].condition =
              [type |-> "LogicalExpression", operator |-> "AND",
               operands |->
                 <<[type |-> "Comparison",
                    left |-> [type |-> "PriceReference", symbol |-> "TSLA"],
                    operator |-> "LESS_THAN",
                    right |-> [type |-> "Literal", value |-> 430, dataType |-> "number"]],
                   [type |-> "Comparison",
                    left |-> [type |-> "IndicatorReference", name |-> "ema_50"],
                    operator |-> "GREATER_THAN",
                    right |-> [type |-> "IndicatorReference", name |-> "ema_200"]],
                   [type |-> "Comparison",
                    left |-> [type |-> "IndicatorReference", name |-> "rsi_14"],
                    operator |-> "GREATER_THAN",
                    right |-> [type |-> "Literal", value |-> 60, dataType |-> "number"]]>>]
         /\ ast.rules[2].name = "exit_long_rule"
         /\ ast.rules[2].condition =
              [type |-> "Comparison",
               left |-> [type |-> "IndicatorReference", name |-> "ema_50"],
               operator |-> "LESS_THAN",
               right |-> [type |-> "IndicatorReference", name |-> "ema_200"]]
    /\ \A g \in DOMAIN outs : \A i \in DOMAIN outs[g] :
         SplitLines(outs[g][i]) =
           <<"// Generated JavaScript Trading Strategy",
             "class TSLAStrategy {",
             "  checkEntry(price, rsi14, ema50, ema200) {",
             "    return (price < 430) && (ema50 > ema200) && (rsi14 > 60);",
             "  }",
             "",
             "  checkExit(ema50, ema200) {",
             "    return ema50 < ema200;",
             "  }",
             "}">>

\* the sample configuration has been normalized and emitted
C2_SampleEmitted ==
  /\ strategy = SampleStrategy
  /\ pc = "transformed"
  /\ \E g \in DOMAIN outs : \E i \in DOMAIN outs[g] : Len(outs[g][i]) > 0

\* what the six tokens are to render as
ExpectedJs ==
  ("<" :> "<") @@ (">" :> ">") @@ ("<=" :> "<=") @@ (">=" :> ">=") @@
  ("==" :> "===") @@ ("!=" :> "!==")

\* a condition whose operator is its `operator` token: a price_comparison, an
\* indicator_comparison, or an indicator_event without event_type and direction
OperatorSite(c) ==
  /\ UsedKey(c) = ""
  /\ "type" \in DOMAIN c
  /\ "params" \in DOMAIN c
  /\ \/ c.type \in {"price_comparison", "indicator_comparison"}
     \/ c.type = "indicator_event" /\ {"event_type", "direction"} \cap DOMAIN c.params = {}
  /\ "operator" \in DOMAIN c.params
  /\ c.params.operator \in DOMAIN ExpectedJs

RECURSIVE OperatorsRenderable(_)
\* every Comparison at any depth holds an operator the Emitter's table has
OperatorsRenderable(e) ==
  IF e.type = "LogicalExpression"
  THEN \A i \in DOMAIN e.operands : OperatorsRenderable(e.operands[i])
  ELSE e.type = "Comparison" => generate_comparison_operator(e.operator).exc = ""

\* C3: operator symmetry: the ComparisonOp written for a token <, >, <=, >=, ==, !=
\* is rendered as <, >, <=, >=, ===, !==, and every operator in the AST is a
\* key of the Emitter's table
C3_OperatorSymmetry ==
  pc = "transformed" =>
    LET origins == Origins
    IN
    \A k \in DOMAIN ast.rules :
      /\ OperatorsRenderable(ast.rules[k].condition)
      /\ LET t == Triggers[origins[k][1]]
         IN OperatorSite(t) =>
              /\ ast.rules[k].condition.type = "Comparison"
              /\ generate_comparison_operator(ast.rules[k].condition.operator)
                   = [exc |-> "", value |-> ExpectedJs[t.params.operator]]

\* an indicator_event with the token == and neither event_type nor direction
\* has been lowered
C3_EqualsTokenLowered ==
  /\ pc = "transformed"
  /\ \E k \in DOMAIN ast.rules :
       LET t == Triggers[Origins[k][1]]
       IN OperatorSite(t) /\ t.type = "indicator_event" /\ t.params.operator = "=="

RECURSIVE NoUnaryLogical(_)
\* no LogicalExpression with exactly one operand at any depth
NoUnaryLogical(e) ==
  e.type = "LogicalExpression" =>
    /\ Len(e.operands) # 1
    /\ \A i \in DOMAIN e.operands : NoUnaryLogical(e.operands[i])

RECURSIVE CollapseHolds(_)
\* for c and every condition nested in its lists: a one-member list lowers to
\* what its member lowers to
CollapseHolds(c) ==
  /\ (UsedKey(c) # "" /\ Len(c[UsedKey(c)]) = 1) =>
       _transform_trigger_conditions(self, c) = _transform_condition(self, c[UsedKey(c)][1])
  /\ \A key \in {"and", "or"} \cap DOMAIN c :
       \A i \in DOMAIN c[key] : CollapseHolds(c[key][i])

\* C4: collapse law: a trigger or nested condition whose and/or list has exactly
\* one member lowers to that member's Expression, and no LogicalExpression of
\* exactly one operand occurs at any depth of the AST
C4_CollapseLaw ==
  pc = "transformed" =>
    LET origins == Origins
    IN
    /\ \A n \in DOMAIN Triggers : CollapseHolds(Triggers[n])
    /\ \A k \in DOMAIN ast.rules :
         /\ NoUnaryLogical(ast.rules[k].condition)
         /\ LET t == Triggers[origins[k][1]]
            IN (UsedKey(t) # "" /\ Len(t[UsedKey(t)]) = 1) =>
                 ast.rules[k].condition = _transform_condition(self, t[UsedKey(t)][1])

\* a rule stems from a one-member list whose member is a one-member list again
C4_NestedCollapse ==
  /\ pc = "transformed"
  /\ \E k \in DOMAIN ast.rules :
       LET t == Triggers[Origins[k][1]]
       IN /\ UsedKey(t) # "" /\ Len(t[UsedKey(t)]) = 1
          /\ LET m == t[UsedKey(t)][1]
             IN /\ Get(m, "type", "") \notin KnownTypes
                /\ UsedKey(m) # "" /\ Len(m[UsedKey(m)]) = 1

RECURSIVE NoEmptyLogical(_)
\* every LogicalExpression at any depth has at least one operand
NoEmptyLogical(e) ==
  e.type = "LogicalExpression" =>
    /\ Len(e.operands) >= 1
    /\ \A i \in DOMAIN e.operands : NoEmptyLogical(e.operands[i])

\* C5: every LogicalExpression of the AST has at least one operand, and a trigger
\* whose and/or list is empty lowers to the always-true sentinel
C5_LogicalOperandsNonEmpty ==
  pc = "transformed" =>
    LET origins == Origins
    IN
    \A k \in DOMAIN ast.rules :
      /\ NoEmptyLogical(ast.rules[k].condition)
      /\ LET t == Triggers[origins[k][1]]
         IN (UsedKey(t) # "" /\ t[UsedKey(t)] = <<>>) => ast.rules[k].condition = Sentinel

\* C6: trigger fan-out: the rules are the pairs (trigger, resolving action id) in
\* trigger order, then `actions` order; rules of one trigger share its condition
\* tree; an id that does not resolve yields no rule
C6_TriggerFanOut ==
  pc = "transformed" =>
    LET origins == Origins
    IN /\ Len(ast.rules) = Len(origins)
       /\ \A k \in DOMAIN ast.rules :
            LET n == origins[k][1]
                id == origins[k][2]
            IN /\ ast.rules[k].type = "Rule"
               /\ ast.rules[k].name = (IF id = "" THEN "rule_" \o ToString(n - 1) ELSE id \o "_rule")
               /\ ast.rules[k].condition = _transform_trigger_conditions(self, Triggers[n])
               /\ ast.rules[k].action = _transform_action(self, ActionOf(id))
               /\ \A j \in DOMAIN ast.rules :
                    origins[j][1] = n => ast.rules[j].condition = ast.rules[k].condition

\* two triggers, the first naming an id that does not resolve before one that
\* does, have been lowered
C6_FanOutWithUnresolved ==
  /\ pc = "transformed"
  /\ Len(Triggers) >= 2
  /\ "actions" \in DOMAIN Triggers[1]
  /\ Len(Triggers[1].actions) >= 2
  /\ ~Resolves(Triggers[1].actions[1])
  /\ Resolves(Triggers[1].actions[2])
  /\ \E k \in DOMAIN ast.rules : Origins[k][1] = 2

\* C7 as stated: every Position carries exactly one of max_size and percent,
\* whatever the action's type
C7_ExactlyOneSizeField ==
  pc = "transformed" =>
    \A k \in DOMAIN ast.rules :
      LET position == ast.rules[k].action.position
      IN ("max_size" \in DOMAIN position) # ("percent" \in DOMAIN position)

\* C7 amended: a Position carries max_size exactly when the action definition's
\* type is "entry" and percent exactly when it is "exit": never both, and
\* neither for any other or absent type
C7_SizeFieldByType ==
  pc = "transformed" =>
    LET origins == Origins
    IN
    \A k \in DOMAIN ast.rules :
      LET position == ast.rules[k].action.position
          action == ActionOf(origins[k][2])
          action_type == IF "type" \in DOMAIN action THEN action.type ELSE ""
      IN /\ ("max_size" \in DOMAIN position) <=> (action_type = "entry")
         /\ ("percent" \in DOMAIN position) <=> (action_type = "exit")

\* rules of an entry action, an exit action and an action of another type
C7_EveryKindOfAction ==
  /\ pc = "transformed"
  /\ \E k \in DOMAIN ast.rules : Get(ActionOf(Origins[k][2]), "type", "") = "entry"
  /\ \E k \in DOMAIN ast.rules : Get(ActionOf(Origins[k][2]), "type", "") = "exit"
  /\ \E k \in DOMAIN ast.rules : Get(ActionOf(Origins[k][2]), "type", "") \notin {"entry", "exit"}

\* C8: emit is deterministic: all runs on the AST, on one generator or several,
\* return the same text; a run leaves the AST as it was and the indentation
\* counter at 0
C8_EmitDeterministic ==
  /\ pc # "emit_failed"
  /\ \A g \in DOMAIN gens :
       /\ gens[g].indent_level = 0
       /\ gens[g].ast = ast
       /\ \A h \in DOMAIN gens : \A i \in DOMAIN outs[g] : \A j \in DOMAIN outs[h] :
            outs[g][i] = outs[h][j]

\* one generator has run twice and another once, on an AST with both methods
C8_RunsOnTwoGenerators ==
  /\ Len(gens) >= 2
  /\ Len(outs[1]) >= 2
  /\ Len(outs[2]) >= 1
  /\ \E k \in DOMAIN ast.rules : ast.rules[k].name = "entry_long_rule"
  /\ \E k \in DOMAIN ast.rules : ast.rules[k].name = "exit_long_rule"

\* the lines one rule adds to the class body
MethodLines(rule) ==
  IF rule.name = "entry_long_rule"
  THEN <<"  checkEntry(price, rsi14, ema50, ema200) {",
         "    return " \o generate_condition_js(rule.condition).value \o ";", "  }", "">>
  ELSE IF rule.name = "exit_long_rule"
  THEN <<"  checkExit(ema50, ema200) {",
         "    return " \o generate_condition_js(rule.condition).value \o ";", "  }">>
  ELSE <<>>

RECURSIVE BodyLines(_, _)
BodyLines(rules, n) ==
  IF n > Len(rules) THEN <<>> ELSE MethodLines(rules[n]) \o BodyLines(rules, n + 1)

\* C9: name-based dispatch: the output is one class {symbol}Strategy holding, in
\* rule order, a checkEntry method per entry_long_rule and a checkExit method per
\* exit_long_rule, each returning the rule's rendered condition; a rule of any
\* other name adds nothing
C9_NameBasedDispatch ==
  \A g \in DOMAIN outs : \A i \in DOMAIN outs[g] :
    SplitLines(outs[g][i]) =
      <<"// Generated JavaScript Trading Strategy", "class " \o ast.symbol \o "Strategy {">>
        \o BodyLines(ast.rules, 1) \o <<"}">>

\* a text has been emitted for an AST with an entry_long_rule, an exit_long_rule
\* and a rule of another name
C9_AllKindsOfRuleEmitted ==
  /\ outs # <<>>
  /\ outs[1] # <<>>
  /\ \E k \in DOMAIN ast.rules : ast.rules[k].name = "entry_long_rule"
  /\ \E k \in DOMAIN ast.rules : ast.rules[k].name = "exit_long_rule"
  /\ \E k \in DOMAIN ast.rules : ast.rules[k].name \notin {"entry_long_rule", "exit_long_rule"}

\* a condition without and/or whose type is none of the four known ones
Unrecognised(c) == UsedKey(c) = "" /\ Get(c, "type", "") \notin KnownTypes

RECURSIVE FallbackHolds(_)
\* c and every condition nested in its lists, when unrecognised, lowers to the sentinel
FallbackHolds(c) ==
  /\ Unrecognised(c) =>
       /\ _transform_condition(self, c) = Sentinel
       /\ _transform_trigger_conditions(self, c) = Sentinel
  /\ \A key \in {"and", "or"} \cap DOMAIN c :
       \A i \in DOMAIN c[key] : FallbackHolds(c[key][i])

\* C10: default fallback: a condition of no known type and without and/or, and a
\* trigger holding only reserved keys, lower to Literal(1) EQUALS Literal(1), and
\* such a trigger still yields its rules, with the sentinel as condition
C10_DefaultFallback ==
  pc = "transformed" =>
    LET origins == Origins
    IN
    /\ \A n \in DOMAIN Triggers :
         /\ FallbackHolds(Triggers[n])
         /\ (Unrecognised(Triggers[n])
               /\ \E i \in DOMAIN Get(Triggers[n], "actions", <<>>) : Resolves(Triggers[n].actions[i]))
              => \E k \in DOMAIN ast.rules : k \in DOMAIN origins /\ origins[k][1] = n
    /\ \A k \in DOMAIN ast.rules :
         Unrecognised(Triggers[origins[k][1]]) => ast.rules[k].condition = Sentinel

\* rules stem from a trigger of unknown type and from one with reserved keys only
C10_BothFallbacksLowered ==
  /\ pc = "transformed"
  /\ \E k \in DOMAIN ast.rules :
       LET t == Triggers[Origins[k][1]]
       IN UsedKey(t) = "" /\ "type" \in DOMAIN t /\ t.type = "unknown_type"
  /\ \E k \in DOMAIN ast.rules : DOMAIN Triggers[Origins[k][1]] \subseteq ReservedKeys

\* the six operator tokens and the ComparisonOp each stands for
TokenTable ==
  ("<" :> "LESS_THAN") @@ (">" :> "GREATER_THAN") @@ ("<=" :> "LESS_THAN_OR_EQUAL") @@
  (">=" :> "GREATER_THAN_OR_EQUAL") @@ ("==" :> "EQUALS") @@ ("!=" :> "NOT_EQUALS")

\* the operator the priority order gives the parameters p of an indicator_event:
\* (1) cross, (2) above/below in event_type or direction, "above" before "below",
\* (3) an explicit operator token, (4) the default
EventOperator(p) ==
  LET event_type == IF "event_type" \in DOMAIN p THEN p.event_type ELSE ""
      direction == IF "direction" \in DOMAIN p THEN p.direction ELSE ""
      named == {event_type, direction} \cap {"above", "below"}
  IN CASE event_type = "cross" /\ direction = "above" -> "GREATER_THAN"
       [] event_type = "cross" /\ direction = "below" -> "LESS_THAN"
       [] event_type = "cross" /\ direction \notin {"above", "below"} -> "EQUALS"
       [] event_type # "cross" /\ "above" \in named -> "GREATER_THAN"
       [] event_type # "cross" /\ named = {"below"} -> "LESS_THAN"
       [] event_type # "cross" /\ named = {} /\ "operator" \in DOMAIN p
            /\ p.operator \in DOMAIN TokenTable -> TokenTable[p.operator]
       [] OTHER -> "GREATER_THAN"

\* the Comparison an indicator_event condition c is to lower to
EventComparison(c) ==
  LET p == IF "params" \in DOMAIN c THEN c.params ELSE <<>>
  IN [type |-> "Comparison",
      left |-> [type |-> "IndicatorReference",
                name |-> IF "indicator" \in DOMAIN p THEN p.indicator ELSE ""],
      operator |-> EventOperator(p),
      right |-> [type |-> "Literal",
                 value |-> IF "threshold" \in DOMAIN p THEN p.threshold ELSE 0,
                 dataType |-> "number"]]

\* a dict that condition lowering reads as an indicator_event
IsIndicatorEvent(c) == "type" \in DOMAIN c /\ c.type = "indicator_event"

RECURSIVE EventOrderHolds(_)
\* c and every condition nested in its lists, when an indicator_event, lowers to
\* the Comparison the priority order gives
EventOrderHolds(c) ==
  /\ IsIndicatorEvent(c) => _transform_condition(self, c) = EventComparison(c)
  /\ \A key \in {"and", "or"} \cap DOMAIN c :
       \A i \in DOMAIN c[key] : EventOrderHolds(c[key][i])

\* C11: indicator_event operator resolution follows one priority order for every
\* combination of event_type, direction and operator: cross decides by direction
\* (above GREATER_THAN, below LESS_THAN, else EQUALS) and ignores the operator;
\* else above/below in event_type or direction gives GREATER_THAN/LESS_THAN;
\* else an operator token goes through the token table, an unknown token giving
\* GREATER_THAN; else GREATER_THAN.  The left operand is an IndicatorReference to
\* `indicator`, the right a Literal of `threshold`, 0 when absent
C11_IndicatorEventPriority ==
  pc = "transformed" =>
    LET origins == Origins
    IN
    /\ \A n \in DOMAIN Triggers : EventOrderHolds(Triggers[n])
    /\ \A k \in DOMAIN ast.rules :
         LET t == Triggers[origins[k][1]]
         IN (UsedKey(t) = "" /\ IsIndicatorEvent(t)) =>
              ast.rules[k].condition = EventComparison(t)

\* a rule stems from an indicator_event whose event_type is "below", whose
\* direction is "above" and which carries an operator token and no threshold
C11_ConflictingEventLowered ==
  /\ pc = "transformed"
  /\ \E k \in DOMAIN ast.rules :
       LET t == Triggers[Origins[k][1]]
       IN /\ UsedKey(t) = "" /\ IsIndicatorEvent(t) /\ "params" \in DOMAIN t
          /\ {"event_type", "direction", "operator"} \subseteq DOMAIN t.params
          /\ t.params.event_type = "below"
          /\ t.params.direction = "above"
          /\ t.params.operator = "<="
          /\ "threshold" \notin DOMAIN t.params

\* the node kinds generate_condition_js and get_value_js have a branch for
ExpressionKinds == {"LogicalExpression", "Comparison"}

ValueKinds == {"Literal", "PriceReference", "IndicatorReference"}

RECURSIVE NoFallbackNode(_)
\* no node of e, at any depth, takes the Emitter's "true" or "null" branch
NoFallbackNode(e) ==
  /\ e.type \in ExpressionKinds
  /\ e.type = "Comparison" => e.left.type \in ValueKinds /\ e.right.type \in ValueKinds
  /\ e.type = "LogicalExpression" =>
       \A i \in DOMAIN e.operands : NoFallbackNode(e.operands[i])

RECURSIVE RendersNonEmpty(_)
\* e and every operand below it render, without an error, to a text that is not empty
RendersNonEmpty(e) ==
  /\ generate_condition_js(e).exc = ""
  /\ generate_condition_js(e).value # ""
  /\ e.type = "LogicalExpression" =>
       \A i \in DOMAIN e.operands : RendersNonEmpty(e.operands[i])

\* emit raises no error on an AST normalize returned, and no node of the AST
\* reaches the Emitter's "true" or "null" output
EmitterFallbacksUnreached ==
  /\ pc # "emit_failed"
  /\ pc = "transformed" => \A k \in DOMAIN ast.rules : NoFallbackNode(ast.rules[k].condition)

\* the return lines of a text
ReturnLines(text) ==
  LET lines == SplitLines(text)
  IN {lines[n] : n \in {m \in DOMAIN lines :
                          Len(lines[m]) >= 11 /\ SubSeq(lines[m], 1, 11) = "    return "}}

\* no rule's condition renders to the empty string, at any depth, and no return
\* statement of an emitted text is without an expression
ReturnsHoldExpressions ==
  /\ pc = "transformed" => \A k \in DOMAIN ast.rules : RendersNonEmpty(ast.rules[k].condition)
  /\ \A g \in DOMAIN outs : \A i \in DOMAIN outs[g] : "    return ;" \notin ReturnLines(outs[g][i])

\* C12: stage compatibility: for every configuration on which normalize returns
\* an AST, emit raises no error, the Emitter's fallback outputs "true" and "null"
\* are never reached, and every return statement holds a non-empty expression of
\* rendered Comparisons joined by && / ||: no rule's rendered condition is empty
C12_StageCompatibility == EmitterFallbacksUnreached /\ ReturnsHoldExpressions

====
